---- MODULE Spec2Model ----
(***************************************************************************)
(* Model of include/fpgm_collocation.h: the flat plate glider model, its   *)
(* trapezoidal collocation constraints, the control effort objective and   *)
(* the NLopt (COBYLA) driver of class fpgm_collocation.                    *)
(*                                                                         *)
(* Numbers.  A double is modelled by an exact rational <<n, d>> in lowest  *)
(* terms with d > 0; the IEEE specials are <<1, 0>> (+inf), <<-1, 0>>      *)
(* (-inf) and <<0, 0>> (NaN).  Decision vector entries are integers (the   *)
(* doubles that hold them are exact).  Rounding and signed zeros are not   *)
(* modelled.                                                               *)
(***************************************************************************)
EXTENDS Integers, Sequences, FiniteSets, TLC

\* ------------------------------------------------------------------------
\* Bounds of the model
\* ------------------------------------------------------------------------
\* largest number of knots in a guess handed to load_initial_guess
MaxKnots == 2
\* number of objective evaluations the optimizer may spend in one solve
MaxEval == 10

\* ------------------------------------------------------------------------
\* double arithmetic
\* ------------------------------------------------------------------------
Abs(n) == IF n < 0 THEN -n ELSE n

Sgn(n) == IF n < 0 THEN -1 ELSE IF n > 0 THEN 1 ELSE 0

RECURSIVE GCD(_, _)
GCD(a, b) == IF b = 0 THEN a ELSE GCD(b, a % b)

Norm(n, d) ==
    IF d = 0 THEN <<Sgn(n), 0>>
    ELSE LET g == GCD(Abs(n), Abs(d))
         IN  <<(Sgn(d) * n) \div g, Abs(d) \div g>>

Rat(i) == <<i, 1>>
NaN == <<0, 0>>
IsNaN(a) == a = NaN
IsInf(a) == a[2] = 0 /\ a[1] # 0

RNeg(a) == <<-a[1], a[2]>>

RAdd(a, b) ==
    IF a[2] = 1 /\ b[2] = 1 THEN <<a[1] + b[1], 1>>
    ELSE IF a[2] # 0 /\ b[2] # 0
    THEN LET d == GCD(a[2], b[2])
         IN  Norm(a[1] * (b[2] \div d) + b[1] * (a[2] \div d), a[2] * (b[2] \div d))
    ELSE IF IsNaN(a) \/ IsNaN(b) THEN NaN
    ELSE IF IsInf(a) /\ IsInf(b) THEN (IF a = b THEN a ELSE NaN)
    ELSE IF IsInf(a) THEN a
    ELSE b

RSub(a, b) == RAdd(a, RNeg(b))

RMul(a, b) ==
    IF a[2] = 1 /\ b[2] = 1 THEN <<a[1] * b[1], 1>>
    ELSE IF a[2] # 0 /\ b[2] # 0
    THEN LET d1 == GCD(Abs(a[1]), b[2])
             d2 == GCD(Abs(b[1]), a[2])
         IN  <<(a[1] \div d1) * (b[1] \div d2), (a[2] \div d2) * (b[2] \div d1)>>
    ELSE IF IsNaN(a) \/ IsNaN(b) THEN NaN
    ELSE <<Sgn(a[1]) * Sgn(b[1]), 0>>

\* a / b; x / 0 is +-inf and 0 / 0 is NaN, as for doubles
RDiv(a, b) ==
    IF IsNaN(a) \/ IsNaN(b) THEN NaN
    ELSE IF IsInf(b) THEN (IF IsInf(a) THEN NaN ELSE Rat(0))
    ELSE IF b[1] = 0 THEN <<Sgn(a[1]), 0>>
    ELSE RMul(a, <<Sgn(b[1]) * b[2], Abs(b[1])>>)

\* a <= b; every comparison with NaN is false
RLeq(a, b) ==
    IF IsNaN(a) \/ IsNaN(b) THEN FALSE
    ELSE IF IsInf(a) THEN a[1] < 0 \/ a = b
    ELSE IF IsInf(b) THEN b[1] > 0
    ELSE a[1] * b[2] <= b[1] * a[2]

RAbs(a) == <<Abs(a[1]), a[2]>>

\* ------------------------------------------------------------------------
\* equations_and_helper
\* ------------------------------------------------------------------------
\* <math.h> sin and cos at the whole radians the model's angles take,
\* to the nearest quarter
Sin(a) ==
    CASE a = 0 -> Rat(0)
      [] Abs(a) = 1 -> Norm(Sgn(a) * 3, 4)
      [] Abs(a) = 2 -> Rat(Sgn(a))
      [] Abs(a) = 3 -> Rat(0)
      [] OTHER -> Norm(-Sgn(a) * 3, 4)

Cos(a) ==
    CASE a = 0 -> Rat(1)
      [] Abs(a) = 1 -> Norm(1, 2)
      [] Abs(a) = 2 -> Norm(-1, 2)
      [] Abs(a) = 3 -> Rat(-1)
      [] OTHER -> Norm(-3, 4)

\* An angle of attack  a - atan(r)  is kept as the record [a |-> a, r |-> r]:
\* the code uses it only through sin*cos and sin^2, which are rational in
\* sin a, cos a and r because, for b = atan(r) in [-pi/2, pi/2],
\*   cos^2 b = 1/(1+r^2),  sin^2 b = r^2/(1+r^2),  sin b cos b = r/(1+r^2).
CosSqAtan(r) ==
    IF IsNaN(r) THEN NaN
    ELSE IF IsInf(r) THEN Rat(0)
    ELSE RDiv(Rat(1), RAdd(Rat(1), RMul(r, r)))

SinSqAtan(r) ==
    IF IsNaN(r) THEN NaN
    ELSE IF IsInf(r) THEN Rat(1)
    ELSE RDiv(RMul(r, r), RAdd(Rat(1), RMul(r, r)))

SinCosAtan(r) ==
    IF IsNaN(r) THEN NaN
    ELSE IF IsInf(r) THEN Rat(0)
    ELSE RDiv(r, RAdd(Rat(1), RMul(r, r)))

\* sin(aoa) * cos(aoa)
SinCosAoa(aoa) ==
    LET s == Sin(aoa.a)
        c == Cos(aoa.a)
    IN  RAdd(RMul(RMul(s, c), RSub(CosSqAtan(aoa.r), SinSqAtan(aoa.r))),
             RMul(RSub(RMul(s, s), RMul(c, c)), SinCosAtan(aoa.r)))

\* pow(sin(aoa), 2)
SinSqAoa(aoa) ==
    LET s == Sin(aoa.a)
        c == Cos(aoa.a)
    IN  RAdd(RSub(RMul(RMul(s, s), CosSqAtan(aoa.r)),
                  RMul(Rat(2), RMul(RMul(s, c), SinCosAtan(aoa.r)))),
             RMul(RMul(c, c), SinSqAtan(aoa.r)))

cl(aoa) == RMul(Rat(2), SinCosAoa(aoa))

cd(aoa) == RMul(Rat(2), SinSqAoa(aoa))

\* Eigen::Vector2d arithmetic
VAdd(v1, v2) == <<RAdd(v1[1], v2[1]), RAdd(v1[2], v2[2])>>
VSub(v1, v2) == <<RSub(v1[1], v2[1]), RSub(v1[2], v2[2])>>
VScale(k, v) == <<RMul(k, v[1]), RMul(k, v[2])>>

two_d_cross(v1, v2) == RSub(RMul(v1[1], v2[2]), RMul(v1[2], v2[1]))

\* gravity and density of air, the locals of fpgm_dynamics
g == Norm(981, 100)
p == Norm(1225, 1000)

\* pow(v[0], 2) + pow(v[1], 2)
SquaredNorm(v) == RAdd(RMul(v[1], v[1]), RMul(v[2], v[2]))

\* 0.5 * p * |v_dot|^2 * s * (cl(alpha) + cd(alpha)) * n, for a surface of
\* area s and normal n whose centroid moves at v_dot, seen at the angle
\* alpha = angle - atan(v_dot[1] / v_dot[0])
SurfaceForce(angle, v_dot, s, n) ==
    LET alpha == [a |-> angle, r |-> RDiv(v_dot[2], v_dot[1])]
    IN  VScale(RMul(RMul(RMul(RMul(Norm(1, 2), p), SquaredNorm(v_dot)), s),
                    RAdd(cl(alpha), cd(alpha))),
               n)

\* pos_dotdot = (force_w + force_e - (0, mass * g)) / mass
LinearAcceleration(force_w, force_e, parameter) ==
    <<RDiv(RAdd(force_w[1], force_e[1]), parameter.mass),
      RDiv(RSub(RAdd(force_w[2], force_e[2]), RMul(parameter.mass, g)), parameter.mass)>>

\* theta_dotdot
AngularAcceleration(theta, force_w, force_e, parameter) ==
    RDiv(RAdd(two_d_cross(<<parameter.l_w, Rat(0)>>, force_w),
              two_d_cross(<<RSub(RNeg(parameter.l), RMul(parameter.l_e, Cos(theta))),
                            RAdd(RNeg(parameter.l), RMul(parameter.l_e, Sin(theta)))>>,
                          force_e)),
         parameter.I)

\* dx = [xdot, zdot, thetadot, phidot, xdotdot, zdotdot, thetadotdot]
Derivative(xdot, zdot, thetadot, phidot, pos_dotdot, theta_dotdot) ==
    <<xdot, zdot, thetadot, phidot, pos_dotdot[1], pos_dotdot[2], theta_dotdot>>

\* the forces on the wing and on the elevator, and from them dx
Forces(theta, phi, xdot, zdot, thetadot, phidot, x_w_dot, x_e_dot, parameter) ==
    LET n_w == <<RNeg(Sin(theta)), Cos(theta)>>
        n_e == <<RNeg(Sin(theta + phi)), Cos(theta + phi)>>
        force_w == SurfaceForce(theta, x_w_dot, parameter.s_w, n_w)
        force_e == SurfaceForce(theta + phi, x_e_dot, parameter.s_e, n_e)
    IN  Derivative(xdot, zdot, thetadot, phidot,
                   LinearAcceleration(force_w, force_e, parameter),
                   AngularAcceleration(theta, force_w, force_e, parameter))

\* The time derivative of the state, dx[1..7] for the code's dx[0..6]; theta
\* and phi are whole radians, the other arguments doubles.  (x_w and x_e,
\* which alone depend on x and z, are computed and not used.)
fpgm_dynamics(x, z, theta, phi, xdot, zdot, thetadot, phidot, parameter) ==
    Forces(theta, phi, xdot, zdot, thetadot, phidot,
           \* x_w_dot
           <<RAdd(xdot, RMul(RMul(parameter.l_w, thetadot), Sin(theta))),
             RSub(zdot, RMul(RMul(parameter.l_w, thetadot), Cos(theta)))>>,
           \* x_e_dot
           <<RAdd(RAdd(xdot, RMul(RMul(parameter.l, thetadot), Sin(theta))),
                  RMul(RMul(parameter.l_e, RAdd(thetadot, phidot)), Sin(theta + phi))),
             RSub(RSub(zdot, RMul(RMul(parameter.l, thetadot), Cos(theta))),
                  RMul(RMul(parameter.l_e, RAdd(thetadot, phidot)), Cos(theta + phi)))>>,
           parameter)

std_vector_to_eigen_vector(x) == [i \in 1..Len(x) |-> x[i]]

\* the upper bound stored to both entries
set_bounded_constrains_upper_twice(index, x, bound) ==
    <<[at |-> index, val |-> RSub(x, bound)],
      [at |-> index + 1, val |-> RSub(x, bound)]>>

\* result[index] = ...; result[index+1] = ...: the two stores, in order, the
\* lower bound first.  The array they go to is the caller's.
set_bounded_constrains(index, x, bound) ==
    <<[at |-> index, val |-> RSub(RNeg(x), bound)],
      [at |-> index + 1, val |-> RSub(x, bound)]>>

\* ------------------------------------------------------------------------
\* fpgm_collocation: the callbacks
\* ------------------------------------------------------------------------
\* x[k] of a C array of n doubles; a load past the end yields junk
At(x, k, junk) == IF k + 1 \in DOMAIN x THEN x[k + 1] ELSE junk

\* boundary.ix[0] and boundary.iz[0]; an empty vector yields junk
Front(v, junk) == IF Len(v) > 0 THEN Rat(v[1]) ELSE Rat(junk)

\* the local of the j loop
defect_tolerance == Norm(1, 100)

\* x_k - x_k_1 + (fpgm.h)/2 * (f_k + f_k_1) for the knots i and i + 1
single_results_vector(i, x, fpgm, junk) ==
    LET x1 == [j \in 1..7 |-> At(x, (j - 1) + 8 * i, junk)]
        x2 == [j \in 1..7 |-> At(x, (j - 1) + 8 * (i + 1), junk)]
        f_k == fpgm_dynamics(Rat(x1[1]), Rat(x1[2]), x1[3], x1[4], Rat(x1[5]),
                             Rat(x1[6]), Rat(x1[7]), Rat(At(x, 7 + 8 * i, junk)), fpgm)
        f_k_1 == fpgm_dynamics(Rat(x2[1]), Rat(x2[2]), x2[3], x2[4], Rat(x2[5]),
                               Rat(x2[6]), Rat(x2[7]),
                               Rat(At(x, 7 + 8 * (i + 1), junk)), fpgm)
        x_k == std_vector_to_eigen_vector([j \in 1..7 |-> Rat(x1[j])])
        x_k_1 == std_vector_to_eigen_vector([j \in 1..7 |-> Rat(x2[j])])
    IN  [j \in 1..7 |->
            RAdd(RSub(x_k[j], x_k_1[j]),
                 RMul(RDiv(fpgm.h, Rat(2)), RAdd(f_k[j], f_k_1[j])))]

\* What one pass of a loop body, or one call, does: the stores to the
\* constraint array in order, the indices of the decision vector it loads,
\* and the number of fpgm_dynamics evaluations.
Nothing == [stores |-> <<>>, reads |-> {}, dyn |-> 0]

Then(e1, e2) ==
    [stores |-> e1.stores \o e2.stores, reads |-> e1.reads \cup e2.reads,
     dyn |-> e1.dyn + e2.dyn]

\* for (int j = 0; j < 7; j++): (0 to 13) constrains dynamic feasibility
DefectLoop(i, defect) ==
    [k \in 1..14 |->
        LET j == (k - 1) \div 2
        IN  set_bounded_constrains((j * 2) + (i * 26), defect[j + 1],
                                   defect_tolerance)[((k - 1) % 2) + 1]]

\* if (i < state_input_length - 1) { ... }
\* the defect taken at every knot, the last one included
DynamicsBlock_every_knot(i, state_input_length, x, fpgm, junk) ==
    IF i < state_input_length
    THEN [stores |-> DefectLoop(i, single_results_vector(i, x, fpgm, junk)),
          reads |-> (8 * i)..(8 * i + 15),
          dyn |-> 2]
    ELSE Nothing

DynamicsBlock(i, state_input_length, x, fpgm, junk) ==
    IF i < state_input_length - 1
    THEN [stores |-> DefectLoop(i, single_results_vector(i, x, fpgm, junk)),
          reads |-> (8 * i)..(8 * i + 15),
          dyn |-> 2]
    ELSE Nothing

\* the vertical velocity bound taken from the pitch rate entry
BoxBlock_vz_from_pitch_rate(i, x, boundary, junk) ==
    [stores |->
        set_bounded_constrains(0 + 14 + (i * 26), Rat(At(x, 2 + (i * 8), junk)),
                               boundary.t_c)
        \o set_bounded_constrains(2 + 14 + (i * 26), Rat(At(x, 3 + (i * 8), junk)),
                                  boundary.p_c)
        \o set_bounded_constrains(4 + 14 + (i * 26), Rat(At(x, 4 + (i * 8), junk)),
                                  boundary.v_c)
        \o set_bounded_constrains(6 + 14 + (i * 26), Rat(At(x, 6 + (i * 8), junk)),
                                  boundary.v_c)
        \o set_bounded_constrains(8 + 14 + (i * 26), Rat(At(x, 6 + (i * 8), junk)),
                                  boundary.td_c)
        \o set_bounded_constrains(10 + 14 + (i * 26), Rat(At(x, 7 + (i * 8), junk)),
                                  boundary.pd_c),
     reads |-> (2 + i * 8)..(7 + i * 8),
     dyn |-> 0]

\* (14 .. 25) the box constraints of knot i
BoxBlock(i, x, boundary, junk) ==
    [stores |->
        set_bounded_constrains(0 + 14 + (i * 26), Rat(At(x, 2 + (i * 8), junk)),
                               boundary.t_c)
        \o set_bounded_constrains(2 + 14 + (i * 26), Rat(At(x, 3 + (i * 8), junk)),
                                  boundary.p_c)
        \o set_bounded_constrains(4 + 14 + (i * 26), Rat(At(x, 4 + (i * 8), junk)),
                                  boundary.v_c)
        \o set_bounded_constrains(6 + 14 + (i * 26), Rat(At(x, 5 + (i * 8), junk)),
                                  boundary.v_c)
        \o set_bounded_constrains(8 + 14 + (i * 26), Rat(At(x, 6 + (i * 8), junk)),
                                  boundary.td_c)
        \o set_bounded_constrains(10 + 14 + (i * 26), Rat(At(x, 7 + (i * 8), junk)),
                                  boundary.pd_c),
     reads |-> (2 + i * 8)..(7 + i * 8),
     dyn |-> 0]

\* for (int i = 0; i < state_input_length; i++)
RECURSIVE KnotLoop(_, _, _, _, _, _)
KnotLoop(i, state_input_length, x, fpgm, boundary, junk) ==
    IF i < state_input_length
    THEN Then(Then(DynamicsBlock(i, state_input_length, x, fpgm, junk),
                   BoxBlock(i, x, boundary, junk)),
              KnotLoop(i + 1, state_input_length, x, fpgm, boundary, junk))
    ELSE Nothing

\* the two anchors after the loop
AnchorBlock(state_input_length, x, boundary, junk) ==
    [stores |->
        set_bounded_constrains(0 + state_input_length * 26, Rat(At(x, 0, junk)),
                               Front(boundary.ix, junk))
        \o set_bounded_constrains(2 + state_input_length * 26, Rat(At(x, 1, junk)),
                                  Front(boundary.iz, junk)),
     reads |-> {0, 1},
     dyn |-> 0]

\* One call of the constraint callback for n variables; data is the
\* combined_param the optimizer was given.  (m and grad are not used.)
collocation_eq_constraints(m, n, x, data, junk) ==
    LET fpgm == data.fp
        boundary == data.oc
        state_input_length == n \div 8
    IN  Then(KnotLoop(0, state_input_length, x, fpgm, boundary, junk),
             AnchorBlock(state_input_length, x, boundary, junk))

\* The constraint array after the stores of a call: a store outside the
\* array leaves the array as it is (what else it damages is not modelled).
Stored(mem, stores) ==
    [i \in DOMAIN mem |->
        LET ks == {k \in 1..Len(stores) : stores[k].at = i}
        IN  IF ks = {} THEN mem[i]
            ELSE stores[CHOOSE k \in ks : \A k2 \in ks : k2 <= k].val]

\* The optimizer's constraint array handed to the callback, with what the last
\* call did: mem is the array (indices 0..m-1), written the indices the call
\* stored to (inside the array or not), reads and dyn as above.
Called(result, effect) ==
    [mem |-> Stored(result.mem, effect.stores),
     written |-> {effect.stores[k].at : k \in 1..Len(effect.stores)},
     reads |-> effect.reads,
     dyn |-> effect.dyn]

\* x1.transpose() * fpgm.Q * x1 for the 7x7 matrix Q
RECURSIVE SumTo(_, _)
SumTo(f, k) == IF k = 0 THEN 0 ELSE f[k] + SumTo(f, k - 1)

QuadraticForm(x1, Q) ==
    SumTo([a \in 1..49 |->
              LET r == ((a - 1) \div 7) + 1
                  c == ((a - 1) % 7) + 1
              IN  x1[r] * Q[r][c] * x1[c]], 49)

\* for (int i = 0; i < state_input_length; i++) cost += state_term + input_term
RECURSIVE CostLoop(_, _, _, _, _, _)
CostLoop(cost, i, state_input_length, x, fpgm, junk) ==
    IF i < state_input_length
    THEN LET x1 == [j \in 1..7 |-> At(x, (j - 1) + 8 * i, junk)]
             state_term == QuadraticForm(x1, fpgm.Q)
             input_term == At(x, 7 + 8 * i, junk) * fpgm.R * At(x, 7 + 8 * i, junk)
         IN  CostLoop(cost + state_term + input_term, i + 1, state_input_length, x,
                      fpgm, junk)
    ELSE cost

\* the weight of the start penalty
start_weight == Rat(1000000)

\* the start penalty subtracted from the effort
control_effort_objective_penalty_subtracted(n, x, data, junk) ==
    LET fpgm == data.fp
        boundary == data.oc
        factor == fpgm.h
        state_input_length == n \div 8
        cost == CostLoop(0, 0, state_input_length, x, fpgm, junk)
        start_constrain ==
            RAdd(RAbs(RSub(Rat(At(x, 0, junk)), Front(boundary.ix, junk))),
                 RAbs(RSub(Rat(At(x, 1, junk)), Front(boundary.iz, junk))))
    IN  RSub(RMul(Rat(cost), factor), RMul(start_weight, start_constrain))

control_effort_objective(n, x, data, junk) ==
    LET fpgm == data.fp
        boundary == data.oc
        factor == fpgm.h
        state_input_length == n \div 8
        cost == CostLoop(0, 0, state_input_length, x, fpgm, junk)
        start_constrain ==
            RAdd(RAbs(RSub(Rat(At(x, 0, junk)), Front(boundary.ix, junk))),
                 RAbs(RSub(Rat(At(x, 1, junk)), Front(boundary.iz, junk))))
    IN  RAdd(RMul(Rat(cost), factor), RMul(start_weight, start_constrain))

\* ------------------------------------------------------------------------
\* Inputs
\* ------------------------------------------------------------------------
\* the values a decision vector entry takes
Vals == {-1, 0, 1}

\* what an indeterminate value (an uninitialized member, a load past the end
\* of an array, the optimizer's fresh constraint array) may turn out to be
Junk == {0, 1}

\* a decision vector of the given length
Pattern(len, shift) == [k \in 1..len |-> ((k + shift) % 3) - 1]

\* the vectors handed to load_initial_guess: whole knots, whole knots plus one
\* stray entry, and a knot and a half
GuessLengths == {8 * k + e : k \in 0..MaxKnots, e \in {0, 1}} \cup {12}

Guesses == {Pattern(len, shift) : len \in GuessLengths, shift \in {0}}

\* the documents load_parameters may find: a glider whose limits the values
\* above respect, and one whose limits they can break
Glider ==
    [length_cg_to_cwing |-> Rat(1), length_pivote_to_celevator |-> Rat(2),
     length_cg_to_pivote |-> Rat(2), surface_area_elevator |-> Rat(1),
     surface_area_wing |-> Rat(2), mass |-> Rat(2),
     moments_of_inertia |-> Rat(2), velocity_constrain |-> Rat(5),
     theta_contrain |-> Rat(1), phi_contrain |-> Rat(1),
     thetadot_constrain |-> Rat(5), phidot_constrain |-> Rat(5)]

UnitGlider ==
    [length_cg_to_cwing |-> Rat(1), length_pivote_to_celevator |-> Rat(1),
     length_cg_to_pivote |-> Rat(2), surface_area_elevator |-> Rat(1),
     surface_area_wing |-> Rat(2), mass |-> Rat(1),
     moments_of_inertia |-> Rat(1), velocity_constrain |-> Norm(1, 2),
     theta_contrain |-> Norm(1, 2), phi_contrain |-> Rat(0),
     thetadot_constrain |-> Rat(1), phidot_constrain |-> Norm(1, 2)]

\* 7x7 cost weights, both positive definite: the identity, and the identity
\* with pitch and elevator angle coupled ([[1, -1], [-1, 2]] on theta, phi)
QIdentity == [r \in 1..7 |-> [c \in 1..7 |-> IF r = c THEN 1 ELSE 0]]

QCoupled ==
    [r \in 1..7 |-> [c \in 1..7 |->
        IF r = 4 /\ c = 4 THEN 2
        ELSE IF r = c THEN 1
        ELSE IF {r, c} = {3, 4} THEN -1
        ELSE 0]]

\* the arguments of load_parameters: file is the document at the path, or
\* "none" when the path cannot be opened
ParameterCalls ==
    {[file |-> "none", node |-> Glider, total |-> 1, size |-> 1, Q |-> QIdentity,
      R |-> 1, ix |-> <<0>>, iz |-> <<0>>]}
    \cup
    {[file |-> "good", node |-> Glider, total |-> 1, size |-> sz, Q |-> QIdentity,
      R |-> 1, ix |-> <<0>>, iz |-> <<1>>] : sz \in 1..MaxKnots}
    \cup
    {[file |-> "good", node |-> UnitGlider, total |-> 2, size |-> 2, Q |-> QIdentity,
      R |-> 2, ix |-> <<-1>>, iz |-> <<0>>],
     [file |-> "good", node |-> UnitGlider, total |-> 2, size |-> 2, Q |-> QCoupled,
      R |-> 2, ix |-> <<1>>, iz |-> <<0>>]}

\* ------------------------------------------------------------------------
\* fpgm_collocation: the object and the solve in progress
\* ------------------------------------------------------------------------
VARIABLES
    param,      \* equations_and_helper::fpgm_param param
    boundary,   \* equations_and_helper::optimization_constrain boundary
    N,          \* int N
    guess,      \* std::vector<double> guess
    pc,         \* "idle", or where nlopt_optimization stands
    opt,        \* the nlopt_opt of the solve in progress
    x,          \* double x[guess.size()], the optimizer's working vector
    result,     \* the optimizer's constraint array and the last call's accesses
    cost,       \* the objective at x, as last evaluated
    last,       \* the seed point and the cost there, once evaluated
    evals,      \* objective evaluations spent
    ret,        \* what the last public call returned
    total       \* the total of the last load_parameters that read its file

vars == <<param, boundary, N, guess, pc, opt, x, result, cost, last, evals, ret,
          total>>

NoOpt == [created |-> FALSE, n |-> 0, m |-> 0, tol |-> <<>>, cp |-> <<>>]
NoResult == [mem |-> <<>>, written |-> {}, reads |-> {}, dyn |-> 0]
NoPoint == [x |-> <<>>, cost |-> NaN]
EmptyState == [x |-> <<>>, z |-> <<>>, theta |-> <<>>, phi |-> <<>>, vx |-> <<>>,
               vz |-> <<>>]

Returned(call, ok, final_vector) ==
    [call |-> call, ok |-> ok, final_vector |-> final_vector]

\* A constructed object: the doubles and N are indeterminate, the matrix Q is
\* 0x0 and the vectors are empty.
Init ==
    /\ \E junk \in Junk :
        /\ param = [l_w |-> Rat(junk), l_e |-> Rat(junk), l |-> Rat(junk),
                    s_w |-> Rat(junk), s_e |-> Rat(junk), mass |-> Rat(junk),
                    I |-> Rat(junk), h |-> Rat(junk), Q |-> <<>>, R |-> junk]
        /\ boundary = [v_c |-> Rat(junk), t_c |-> Rat(junk), p_c |-> Rat(junk),
                       td_c |-> Rat(junk), pd_c |-> Rat(junk), ix |-> <<>>, iz |-> <<>>]
    /\ N \in 0..MaxKnots
    /\ guess = <<>>
    /\ pc = "idle"
    /\ opt = NoOpt
    /\ x = <<>>
    /\ result = NoResult
    /\ cost = NaN
    /\ last = NoPoint
    /\ evals = 0
    /\ ret = Returned("none", TRUE, EmptyState)
    /\ total = 0

\* bool load_parameters(directory, total, size, Q, R, ix, iz)
load_parameters(a) ==
    /\ pc = "idle"
    /\ IF a.file = "none"
       THEN /\ ret' = Returned("load_parameters", FALSE, EmptyState)
            /\ UNCHANGED <<param, boundary, total>>
       ELSE /\ param' = [l_w |-> a.node.length_cg_to_cwing,
                         l_e |-> a.node.length_pivote_to_celevator,
                         l |-> a.node.length_cg_to_pivote,
                         s_w |-> a.node.surface_area_wing,
                         s_e |-> a.node.surface_area_elevator,
                         mass |-> a.node.mass,
                         I |-> a.node.moments_of_inertia,
                         h |-> RDiv(Rat(a.total), Rat(a.size)),
                         Q |-> a.Q, R |-> a.R]
            /\ boundary' = [v_c |-> a.node.velocity_constrain,
                            t_c |-> a.node.theta_contrain,
                            p_c |-> a.node.phi_contrain,
                            td_c |-> a.node.thetadot_constrain,
                            pd_c |-> a.node.phidot_constrain,
                            ix |-> a.ix, iz |-> a.iz]
            /\ ret' = Returned("load_parameters", TRUE, EmptyState)
            /\ total' = a.total
    /\ UNCHANGED <<N, guess, pc, opt, x, result, cost, last, evals>>

\* <math.h> remainder(a, b) for integers a and b > 0: a - n*b for the integer
\* n nearest to a/b, the even one when two are equally near
remainder(a, b) ==
    LET q == a \div b
        low == a - q * b
    IN  IF 2 * low < b THEN low
        ELSE IF 2 * low > b THEN low - b
        ELSE IF q % 2 = 0 THEN low
        ELSE low - b

\* bool load_initial_guess(std::vector<double> x)
load_initial_guess(v) ==
    /\ pc = "idle"
    /\ guess' = v
    /\ IF remainder(Len(v), 8) # 0
       THEN /\ ret' = Returned("load_initial_guess", FALSE, EmptyState)
            /\ UNCHANGED N
       ELSE /\ N' = Len(v) \div 8
            /\ ret' = Returned("load_initial_guess", TRUE, EmptyState)
    /\ UNCHANGED <<param, boundary, pc, opt, x, result, cost, last, evals, total>>

\* the early return forgotten
GuessEmpty_never == FALSE

\* if (guess.empty()) return final_vector;
GuessEmpty == guess = <<>>

\* double tolerance = 1E-8
tolerance == Norm(1, 100000000)

\* the count the comment above the declaration describes: dimension * 2
inequality_dimension_twice_dimension == N * 8 * 2

\* int inequality_dimension = 4 + N * 26
inequality_dimension == 4 + N * 26

\* double tol_ineq[inequality_dimension] = {tolerance}: the first element is
\* given, the others are zero
tol_ineq == [i \in 1..inequality_dimension |-> IF i = 1 THEN tolerance ELSE Rat(0)]

\* the velocity components taken one entry too far
Decode_velocity_shifted(steps, xs, junk) ==
    [x     |-> [i \in 1..steps |-> At(xs, 0 + (i - 1) * 8, junk)],
     z     |-> [i \in 1..steps |-> At(xs, 1 + (i - 1) * 8, junk)],
     theta |-> [i \in 1..steps |-> At(xs, 2 + (i - 1) * 8, junk)],
     phi   |-> [i \in 1..steps |-> At(xs, 3 + (i - 1) * 8, junk)],
     vx    |-> [i \in 1..steps |-> At(xs, 5 + (i - 1) * 8, junk)],
     vz    |-> [i \in 1..steps |-> At(xs, 6 + (i - 1) * 8, junk)]]

\* conversion back to control states format: for (int i = 0; i < N; i++)
Decode(steps, xs, junk) ==
    [x     |-> [i \in 1..steps |-> At(xs, 0 + (i - 1) * 8, junk)],
     z     |-> [i \in 1..steps |-> At(xs, 1 + (i - 1) * 8, junk)],
     theta |-> [i \in 1..steps |-> At(xs, 2 + (i - 1) * 8, junk)],
     phi   |-> [i \in 1..steps |-> At(xs, 3 + (i - 1) * 8, junk)],
     vx    |-> [i \in 1..steps |-> At(xs, 4 + (i - 1) * 8, junk)],
     vz    |-> [i \in 1..steps |-> At(xs, 5 + (i - 1) * 8, junk)]]

\* nlopt_optimization() up to the call of nlopt_optimize: either the early
\* return for an empty guess, or the optimizer is created and configured and
\* the working vector is seeded from the guess.  The constraint array is the
\* optimizer's, of the registered size, with indeterminate contents.
nlopt_optimization ==
    /\ pc = "idle"
    /\ IF GuessEmpty
       THEN /\ ret' = Returned("nlopt_optimization", TRUE, EmptyState)
            /\ UNCHANGED <<pc, opt, x, result, cost, last, evals>>
       ELSE /\ \E junk \in Junk :
                result' = [NoResult EXCEPT
                              !.mem = [i \in 0..(inequality_dimension - 1) |-> Rat(junk)]]
            /\ opt' = [created |-> TRUE, n |-> Len(guess), m |-> inequality_dimension,
                       tol |-> tol_ineq, cp |-> [fp |-> param, oc |-> boundary]]
            /\ x' = guess
            /\ cost' = Rat(0)
            /\ last' = NoPoint
            /\ evals' = 0
            /\ pc' = "optimizing"
            /\ ret' = Returned("running", TRUE, EmptyState)
    /\ UNCHANGED <<param, boundary, N, guess, total>>

\* The indeterminate values the callbacks can load at a point: members of an
\* object that never loaded parameters, and x[1] of a vector of one entry.
\* Where they load none, one value stands for all.
JunkAt(point) == IF param.Q = <<>> \/ Len(point) < 2 THEN Junk ELSE {0}

\* One evaluation by the optimizer at the trial point: it calls the objective
\* and then the constraints, which store into its constraint array.
\* The objective was registered with &param as its data, which the callback
\* reads as a combined_param: the members param and boundary of the object
\* lie as fp and oc do.  With the 0x0 matrix of an object that never loaded
\* parameters the product x1' * Q * x1 is undefined where Eigen's assertions
\* are compiled out: the cost is junk.
Evaluate(point) ==
    /\ x' = point
    /\ evals' = evals + 1
    /\ \E junk \in JunkAt(point) :
        /\ cost' = IF param.Q = <<>> THEN Rat(junk)
                   ELSE control_effort_objective(
                            opt.n, point, [fp |-> param, oc |-> boundary], junk)
        /\ result' = Called(result,
                            collocation_eq_constraints(opt.m, opt.n, point, opt.cp, junk))

\* nlopt_optimize starts at the seed it was given, the copy of the guess.
evaluate_seed ==
    /\ pc = "optimizing"
    /\ evals = 0
    /\ param.Q # <<>>
    /\ Evaluate(x)
    /\ UNCHANGED <<param, boundary, N, guess, pc, opt, last, ret, total>>

\* The same for an object that never loaded parameters: where Eigen's
\* assertions are compiled in, the first product x1' * Q * x1 fails the size
\* assertion and the process aborts; where they are not, the solve goes on.
evaluate_seed_unloaded ==
    /\ pc = "optimizing"
    /\ evals = 0
    /\ param.Q = <<>>
    /\ \/ /\ pc' = "aborted"
          /\ UNCHANGED <<x, evals, cost, result>>
       \/ /\ Evaluate(x)
          /\ UNCHANGED pc
    /\ UNCHANGED <<param, boundary, N, guess, opt, last, ret, total>>

\* The optimizer goes on to the next vertex of the simplex it builds around
\* the seed: its k-th trial is the seed with coordinate k moved.  It remembers
\* the seed and the cost there.
evaluate_trial ==
    /\ pc = "optimizing"
    /\ evals >= 1
    /\ evals < MaxEval
    /\ evals <= Len(x)
    /\ \E v \in Vals \ {guess[evals]} :
        Evaluate([guess EXCEPT ![evals] = v])
    /\ last' = IF evals = 1 THEN [x |-> x, cost |-> cost] ELSE last
    /\ UNCHANGED <<param, boundary, N, guess, pc, opt, ret, total>>

\* nlopt_optimize returns with its point in x; the result is decoded, the
\* optimizer destroyed and the locals are gone.
optimizer_return ==
    /\ pc = "optimizing"
    /\ evals >= 1
    /\ \E junk \in Junk :
        ret' = Returned("nlopt_optimization", TRUE, Decode(N, x, junk))
    /\ pc' = "idle"
    /\ opt' = NoOpt
    /\ x' = <<>>
    /\ result' = NoResult
    /\ cost' = NaN
    /\ last' = NoPoint
    /\ evals' = 0
    /\ UNCHANGED <<param, boundary, N, guess, total>>

Next ==
    \/ \E a \in ParameterCalls : load_parameters(a)
    \/ \E v \in Guesses : load_initial_guess(v)
    \/ nlopt_optimization
    \/ evaluate_seed
    \/ evaluate_seed_unloaded
    \/ evaluate_trial
    \/ optimizer_return

Spec == Init /\ [][Next]_vars

\* ------------------------------------------------------------------------
\* Properties
\* ------------------------------------------------------------------------
\* the optimizer has evaluated the objective and the constraints at x
Evaluated == pc = "optimizing" /\ evals >= 1

\* load_parameters has succeeded on this object
Loaded == param.Q # <<>>

\* the decision vector of the solve consists of whole knots
WholeKnots == opt.n % 8 = 0

\* the number of knots the callbacks see
Knots == opt.n \div 8

C2_EveryEntryAssigned ==
    (Evaluated /\ WholeKnots /\ Knots \in {1, 2, 5, 20}) =>
        result.written = 0..(4 + 26 * Knots - 1)

\* C3: a load_initial_guess that returns false leaves the stored guess and
\* the stored N as they were.
C3_RejectedLoadKeepsState ==
    [][(ret'.call = "load_initial_guess" /\ ~ret'.ok) => (guess' = guess /\ N' = N)]_vars

\* C4: whenever nlopt_optimization runs the solver, the stored guess has
\* 8 * N entries for the stored N, so the loops over N stay inside the working
\* vector of guess.size() entries.
C4_SolverRunsOnWholeKnots ==
    pc = "optimizing" =>
        /\ Len(guess) % 8 = 0
        /\ Len(guess) = 8 * N
        /\ 8 * N <= Len(x)

\* C5: with an empty stored guess, nlopt_optimization returns six empty
\* sequences and neither creates nor runs the optimizer: no callback is
\* invoked.
C5_EmptyGuessReturnsEmpty ==
    [][(pc = "idle" /\ guess = <<>> /\ ret'.call \in {"nlopt_optimization", "running"}) =>
          /\ ret'.call = "nlopt_optimization"
          /\ ret'.final_vector = EmptyState
          /\ pc' = "idle"
          /\ ~opt'.created
          /\ evals' = 0
          /\ UNCHANGED <<x, result, cost>>]_vars

C5_Witness ==
    /\ pc = "idle"
    /\ guess = <<>>
    /\ N = 0
    /\ Loaded
    /\ ret.call = "nlopt_optimization"
    /\ ret.final_vector = EmptyState
    /\ ~opt.created

\* C6: after a successful load of 8N entries (N >= 1), nlopt_optimization
\* returns six sequences of length N whose i-th entries are the elements 8i,
\* 8i+1, ..., 8i+5 of the optimizer's final vector; the elements 8i+6 and
\* 8i+7 enter no sequence, and there is no seventh.
C6_ResultSlicesFinalVector ==
    [][(pc = "optimizing" /\ pc' = "idle" /\ N >= 1 /\ Len(guess) = 8 * N) =>
          /\ DOMAIN ret'.final_vector = {"x", "z", "theta", "phi", "vx", "vz"}
          /\ ret'.final_vector.x = [i \in 1..N |-> x[8 * (i - 1) + 1]]
          /\ ret'.final_vector.z = [i \in 1..N |-> x[8 * (i - 1) + 2]]
          /\ ret'.final_vector.theta = [i \in 1..N |-> x[8 * (i - 1) + 3]]
          /\ ret'.final_vector.phi = [i \in 1..N |-> x[8 * (i - 1) + 4]]
          /\ ret'.final_vector.vx = [i \in 1..N |-> x[8 * (i - 1) + 5]]
          /\ ret'.final_vector.vz = [i \in 1..N |-> x[8 * (i - 1) + 6]]]_vars

C6_Witness ==
    /\ pc = "idle"
    /\ ret.call = "nlopt_optimization"
    /\ N = 2
    /\ Len(guess) = 16
    /\ Len(ret.final_vector.vz) = 2
    /\ ret.final_vector.vz[1] # guess[6]
    /\ ret.final_vector.vz[2] = guess[14]

\* the anchor entries of the constraint array are all satisfied
AnchorsSatisfied ==
    \A k \in 0..3 : RLeq(result.mem[26 * Knots + k], Rat(0))

\* |q - t| <= tau
Within(q, t, tau) == RLeq(RAbs(RSub(Rat(q), Rat(t))), tau)

\* C7: the anchor entries the callback stores after the knot blocks are all
\* <= 0 exactly when x[0] is within a small tolerance of ix[0] and x[1] is
\* within that tolerance of iz[0], whatever the sign of the targets.
C7_AnchorsEncodeEquality ==
    (Evaluated /\ Loaded /\ WholeKnots) =>
        (AnchorsSatisfied <=>
            /\ Within(x[1], boundary.ix[1], defect_tolerance)
            /\ Within(x[2], boundary.iz[1], defect_tolerance))

\* C8 as stated: for a single knot the callback stores 12 box entries and 2
\* anchor entries and nothing else, evaluates no dynamics and reads no entry
\* of the decision vector at index 8 or beyond.
C8_SingleKnotTwoAnchors ==
    (Evaluated /\ opt.n = 8) =>
        /\ Cardinality(result.written) = 12 + 2
        /\ result.dyn = 0
        /\ result.written \cap 0..13 = {}
        /\ result.reads \subseteq 0..7

\* C8: for a single knot the callback stores the 12 box entries 14..25 and
\* the 4 anchor entries 26..29 (a lower and an upper entry for x and for z)
\* and nothing else; it evaluates no dynamics, stores no defect entry and
\* reads no entry of the decision vector at index 8 or beyond.
C8_SingleKnotBoxAndAnchors ==
    (Evaluated /\ opt.n = 8) =>
        /\ result.written = 14..29
        /\ Cardinality(result.written) = 12 + 4
        /\ result.dyn = 0
        /\ result.written \cap 0..13 = {}
        /\ result.reads \subseteq 0..7

C8_Witness ==
    /\ Evaluated
    /\ Loaded
    /\ opt.n = 8
    /\ N = 1
    /\ evals >= 2
    /\ 29 \in result.written

\* the entries in which the evaluated point differs from the seed
Moved == {k \in 1..Len(x) : x[k] # last.x[k]}

\* the seed and a point that differs from it in one component have both been
\* evaluated with loaded parameters
Compared ==
    /\ Evaluated
    /\ Loaded
    /\ WholeKnots
    /\ last # NoPoint
    /\ Len(last.x) = Len(x)
    /\ Cardinality(Moved) = 1

\* the cost of the two points is ordered as the magnitudes of component k
Ordered(k) ==
    /\ Abs(x[k]) >= Abs(last.x[k]) => RLeq(last.cost, cost)
    /\ Abs(x[k]) <= Abs(last.x[k]) => RLeq(cost, last.cost)

\* C9 as stated: with Q positive definite and R positive, the cost is
\* non-decreasing in the magnitude of any one component of any knot, the
\* first knot's x and z and a Q with off-diagonal entries included.
C9_CostMonotoneAnyComponent ==
    Compared => \A k \in Moved : Ordered(k)

\* Q has no off-diagonal entry and a positive diagonal
PositiveDiagonal(Q) ==
    \A i \in 1..7 : \A j \in 1..7 :
        IF i = j THEN Q[i][j] > 0 ELSE Q[i][j] = 0

\* component k is not measured against a non-zero start target
AwayFromTarget(k) ==
    /\ k = 1 => boundary.ix[1] = 0
    /\ k = 2 => boundary.iz[1] = 0

\* C9: with a diagonal Q of positive entries, R positive and h positive, the
\* cost is non-decreasing in the magnitude of any one component of any knot
\* other than the first knot's x and z; for the first knot's x (z) it is so
\* when the target ix[0] (iz[0]) is zero.
C9_CostMonotoneDiagonal ==
    (Compared /\ PositiveDiagonal(param.Q) /\ param.R > 0 /\ RLeq(Rat(0), param.h)) =>
        \A k \in Moved : AwayFromTarget(k) => Ordered(k)

C9_Witness ==
    /\ Compared
    /\ PositiveDiagonal(param.Q)
    /\ Moved = {8}
    /\ Abs(x[8]) < Abs(last.x[8])
    /\ cost # last.cost
    /\ RLeq(cost, last.cost)

\* A decision vector that holds a Trajectory Result: knot i takes x, z, theta,
\* phi, vx, vz from the six sequences, and the two entries the result does not
\* carry take the values rate and control.
Encode(fv, rate, control) ==
    [k \in 1..(8 * Len(fv.x)) |->
        LET i == ((k - 1) \div 8) + 1
            c == (k - 1) % 8
        IN  CASE c = 0 -> fv.x[i]
              [] c = 1 -> fv.z[i]
              [] c = 2 -> fv.theta[i]
              [] c = 3 -> fv.phi[i]
              [] c = 4 -> fv.vx[i]
              [] c = 5 -> fv.vz[i]
              [] c = 6 -> rate
              [] OTHER -> control]

\* What the callback stores when it runs on the re-encoded result of x.
Rerun(rate, control) ==
    collocation_eq_constraints(opt.m, opt.n,
        Encode(Decode(Knots, x, 0), rate, control), opt.cp, 0).stores

\* The constraint array after those stores, when it held prior in every entry
\* before.
Reencoded(stores, prior) ==
    Stored([i \in 0..(opt.m - 1) |-> Rat(prior)], stores)

Retained(knots) ==
    UNION {(26 * i + 14)..(26 * i + 21) : i \in 0..(knots - 1)}
        \cup (26 * knots)..(26 * knots + 3)

C11_TimestepIsTotalOverN ==
    (pc = "optimizing" /\ Loaded /\ N >= 1 /\ Len(guess) = 8 * N) =>
        opt.cp.fp.h = RDiv(Rat(total), Rat(N))

\* C12: for N >= 1, every one of the 4+26N entries of the tolerance array
\* registered with the constraint block holds 1e-8.
C12_ToleranceUniform ==
    (opt.created /\ N >= 1) =>
        /\ Len(opt.tol) = 4 + 26 * N
        /\ \A i \in 1..Len(opt.tol) : opt.tol[i] = tolerance

\* the entries 26i+first and 26i+first+1 are both <= 0
PairSatisfied(i, first) ==
    /\ RLeq(result.mem[26 * i + first], Rat(0))
    /\ RLeq(result.mem[26 * i + first + 1], Rat(0))

\* |x[8i+c]| <= bound
Bounded(i, c, bound) == RLeq(RAbs(Rat(x[8 * i + c + 1])), bound)

\* C13: for every knot i < N, the last one included, the callback stores the
\* 12 entries 26i+14 .. 26i+25; the pair for theta is <= 0 exactly when
\* |theta_i| <= t_c, and so for phi and p_c, xdot and v_c, zdot and v_c,
\* thetadot and td_c, phidot and pd_c, hence all 12 are <= 0 exactly when the
\* six bounds hold; the 12 indices meet no defect index 26j .. 26j+13 and no
\* anchor index 26N .. 26N+3.
C13_BoxResiduals ==
    (Evaluated /\ Loaded /\ WholeKnots) =>
        \A i \in 0..(Knots - 1) :
            /\ (26 * i + 14)..(26 * i + 25) \subseteq result.written
            /\ PairSatisfied(i, 14) <=> Bounded(i, 2, boundary.t_c)
            /\ PairSatisfied(i, 16) <=> Bounded(i, 3, boundary.p_c)
            /\ PairSatisfied(i, 18) <=> Bounded(i, 4, boundary.v_c)
            /\ PairSatisfied(i, 20) <=> Bounded(i, 5, boundary.v_c)
            /\ PairSatisfied(i, 22) <=> Bounded(i, 6, boundary.td_c)
            /\ PairSatisfied(i, 24) <=> Bounded(i, 7, boundary.pd_c)
            /\ \A j \in 0..(Knots - 1) :
                   (26 * i + 14)..(26 * i + 25) \cap (26 * j)..(26 * j + 13) = {}
            /\ (26 * i + 14)..(26 * i + 25) \cap (26 * Knots)..(26 * Knots + 3) = {}

C13_Witness ==
    /\ Evaluated
    /\ Loaded
    /\ opt.n = 16
    /\ ~PairSatisfied(1, 14)
    /\ ~PairSatisfied(1, 16)
    /\ PairSatisfied(1, 22)
    /\ PairSatisfied(0, 16)
    /\ ~PairSatisfied(0, 20)

====
